---- MODULE Spec2Model ----
(***************************************************************************)
(* Model of StockPatternMatcher (homework/01/stock_pattern_matcher.py):   *)
(* the historical pattern-similarity search over one price series.        *)
(*                                                                         *)
(* Numbers.  Prices are integers.  normalize_series is applied once, to   *)
(* the whole series (fetch_data), so every normalised value of a series   *)
(* is a fraction num / den with the one denominator den = max - min; the  *)
(* model keeps the numerators and the denominator.  A DTW distance is a   *)
(* sum of |num - num'| over that same denominator, so distances of one    *)
(* search are compared by their numerators.                               *)
(***************************************************************************)
EXTENDS Integers, Sequences, FiniteSets, TLC

\* ------------------------------------------------------------ arithmetic

Abs(x) == IF x < 0 THEN -x ELSE x

Max2(a, b) == IF a >= b THEN a ELSE b

\* int(np.ceil(a / b)) for a >= 0, b > 0
CeilDiv(a, b) == (a + b - 1) \div b

Range(s) == {s[k] : k \in 1..Len(s)}

SeqMin(s) == CHOOSE m \in Range(s) : \A v \in Range(s) : m <= v

SeqMax(s) == CHOOSE m \in Range(s) : \A v \in Range(s) : m >= v

RECURSIVE SeqSum(_)
SeqSum(s) == IF s = <<>> THEN 0 ELSE s[1] + SeqSum(Tail(s))

\* s[lo:hi] of Python (0-based lo, exclusive hi), as a 1-based sequence
Slice(s, lo, hi) == [k \in 1..(hi - lo) |-> s[lo + k]]

\* float('inf') of the cost grid
Inf == -1

\* a < b on costs that may be infinite
CostLt(a, b) == a /= Inf /\ (b = Inf \/ a < b)

\* a + dt on a cost that may be infinite
CostAdd(a, dt) == IF a = Inf THEN Inf ELSE a + dt

\* ------------------------------------------------------------ normalizer

\* a faulty variant of normalize_series: the minimum is not subtracted from
\* the values
normalize_series_NoShift(series) ==
    LET min_val == SeqMin(series)
        max_val == SeqMax(series)
    IN  IF max_val = min_val
        THEN [num |-> [k \in 1..Len(series) |-> 0], den |-> 1]
        ELSE [num |-> series, den |-> max_val - min_val]

\* a faulty variant of normalize_series: the test max = min left out, a
\* constant series is divided by zero
normalize_series_NoGuard(series) ==
    LET min_val == SeqMin(series)
        max_val == SeqMax(series)
    IN  [num |-> [k \in 1..Len(series) |-> series[k] - min_val],
         den |-> max_val - min_val]

\* a faulty variant of normalize_series: the values are divided by the
\* maximum, not by the range
normalize_series_ByMax(series) ==
    LET min_val == SeqMin(series)
        max_val == SeqMax(series)
    IN  IF max_val = min_val
        THEN [num |-> [k \in 1..Len(series) |-> 0], den |-> 1]
        ELSE [num |-> [k \in 1..Len(series) |-> series[k] - min_val],
              den |-> max_val]

\* normalize_series: (series - min) / (max - min), zeros when max = min.
\* The result is the sequence of numerators with its denominator.
normalize_series(series) ==
    LET min_val == SeqMin(series)
        max_val == SeqMax(series)
    IN  IF max_val = min_val
        THEN [num |-> [k \in 1..Len(series) |-> 0], den |-> 1]
        ELSE [num |-> [k \in 1..Len(series) |-> series[k] - min_val],
              den |-> max_val - min_val]

\* ------------------------------------------------------------ fastdtw

\* The two builds of the fastdtw package: the pure-Python module and the
\* compiled extension.  They differ in how a tie between predecessors of
\* equal cost is broken.
Impls == {"py", "c"}

\* fastdtw's default radius (the call passes none)
Radius == 1

\* The predecessor of a cell, from the costs of (i-1,j), (i,j-1), (i-1,j-1).
\* "py": min(..., key=cost) over (up, left, corner) keeps the first minimum.
\* "c" : up if strictly below both, else left if strictly below corner,
\*       else corner.
PickPred(impl, up, left, corner) ==
    IF impl = "py"
    THEN IF ~CostLt(left, up) /\ ~CostLt(corner, up) THEN "up"
         ELSE IF ~CostLt(corner, left) THEN "left"
         ELSE "corner"
    ELSE IF CostLt(up, left) /\ CostLt(up, corner) THEN "up"
         ELSE IF CostLt(left, corner) THEN "left"
         ELSE "corner"

NoCell == [cost |-> Inf, pred |-> "none"]

\* One row of the cost grid: cells lo..hi of row i, left to right.
RECURSIVE DtwRow(_, _, _, _, _, _, _)
DtwRow(impl, xi, y, prev, hi, j, cur) ==
    IF j > hi THEN cur
    ELSE LET dt     == Abs(xi - y[j])
             up     == prev[j].cost
             left   == cur[j - 1].cost
             corner == prev[j - 1].cost
             pred   == PickPred(impl, up, left, corner)
             from   == CASE pred = "up" -> up
                         [] pred = "left" -> left
                         [] pred = "corner" -> corner
             cell   == [cost |-> CostAdd(from, dt), pred |-> pred]
         IN  DtwRow(impl, xi, y, prev, hi, j + 1, [cur EXCEPT ![j] = cell])

\* The cost grid D over the window; window[i] = <<lo, hi>> is the run of
\* columns of row i (1-based).  grid[i + 1] is row i, row 0 being the
\* boundary with D[0,0] = 0; the next row to fill is row Len(grid).
RECURSIVE DtwGrid(_, _, _, _, _)
DtwGrid(impl, x, y, window, grid) ==
    IF Len(grid) > Len(x) THEN grid
    ELSE LET i     == Len(grid)
             blank == [j \in 0..Len(y) |-> NoCell]
             row   == DtwRow(impl, x[i], y, grid[i], window[i][2],
                             window[i][1], blank)
         IN  DtwGrid(impl, x, y, window, Append(grid, row))

\* The predecessor cell of (i, j) the grid recorded
PredCell(grid, i, j) ==
    LET pred == grid[i + 1][j].pred
    IN  CASE pred = "up" -> <<i - 1, j>>
          [] pred = "left" -> <<i, j - 1>>
          [] pred = "corner" -> <<i - 1, j - 1>>

\* Backtracking from (len_x, len_y) to (0, 0): the path holds the 0-based
\* index pairs (i-1, j-1) of the cells passed, first pair first; its head
\* is the cell reached so far.
RECURSIVE Backtrack(_, _)
Backtrack(grid, path) ==
    LET p == PredCell(grid, path[1][1] + 1, path[1][2] + 1)
    IN  IF p = <<0, 0>> THEN path
        ELSE Backtrack(grid, <<<<p[1] - 1, p[2] - 1>>>> \o path)

\* __dtw(x, y, window): the distance D[len_x, len_y] and the path
Dtw(impl, x, y, window) ==
    LET row0 == [j \in 0..Len(y) |->
                    IF j = 0 THEN [cost |-> 0, pred |-> "none"] ELSE NoCell]
        grid == DtwGrid(impl, x, y, window, <<row0>>)
    IN  [distance |-> grid[Len(x) + 1][Len(y)].cost,
         path     |-> Backtrack(grid, <<<<Len(x) - 1, Len(y) - 1>>>>)]

\* window = None: every cell
FullWindow(len_x, len_y) == [i \in 1..len_x |-> <<1, len_y>>]

\* __reduce_by_half: the averages of adjacent pairs.  The coarse sequences
\* serve only to find a path, by comparisons of costs among themselves, so
\* they are carried as the pair sums (twice the averages) to stay integral.
ReduceByHalf(x) == [k \in 1..(Len(x) \div 2) |-> x[2 * k - 1] + x[2 * k]]

\* The rows of __expand_window: row i takes the first run of columns
\* j >= start_j with (i, j) in window_ (0-based), start_j being the first
\* column of the row before.  Returned 1-based, as Dtw takes them; the next
\* row to fill is row Len(rows).
RECURSIVE WindowRows(_, _, _, _, _)
WindowRows(window_, len_x, len_y, start_j, rows) ==
    IF Len(rows) >= len_x THEN rows
    ELSE LET i  == Len(rows)
             lo == CHOOSE j \in start_j..(len_y - 1) :
                       /\ <<i, j>> \in window_
                       /\ \A k \in start_j..(j - 1) : <<i, k>> \notin window_
             hi == CHOOSE j \in lo..(len_y - 1) :
                       /\ \A k \in lo..j : <<i, k>> \in window_
                       /\ (j + 1 <= len_y - 1 => <<i, j + 1>> \notin window_)
         IN  WindowRows(window_, len_x, len_y, lo,
                        Append(rows, <<lo + 1, hi + 1>>))

\* __expand_window(path, len_x, len_y, radius)
ExpandWindow(path, len_x, len_y, radius) ==
    LET path_   == {<<path[k][1] + a, path[k][2] + b>> :
                        k \in 1..Len(path), a \in (-radius)..radius,
                        b \in (-radius)..radius}
        window_ == {<<2 * p[1] + a, 2 * p[2] + b>> :
                        p \in path_, a \in 0..1, b \in 0..1}
    IN  WindowRows(window_, len_x, len_y, 0, <<>>)

\* __fastdtw(x, y, radius, dist): exact below radius + 2 samples, else the
\* path of the half-resolution problem, widened by radius, bounds the search.
RECURSIVE FastDtw(_, _, _, _)
FastDtw(impl, x, y, radius) ==
    IF Len(x) < radius + 2 \/ Len(y) < radius + 2
    THEN Dtw(impl, x, y, FullWindow(Len(x), Len(y)))
    ELSE LET low    == FastDtw(impl, ReduceByHalf(x), ReduceByHalf(y), radius)
             window == ExpandWindow(low.path, Len(x), Len(y), radius)
         IN  Dtw(impl, x, y, window)

\* calculate_dtw_distance(pattern1, pattern2): fastdtw with its defaults
calculate_dtw_distance(impl, pattern1, pattern2) ==
    FastDtw(impl, pattern1, pattern2, Radius)

\* ------------------------------------------------------------ correlation

\* np.corrcoef(x, y)[0, 1] for two sequences of one length n: the
\* covariance over the root of the product of the variances, kept as the
\* three integers n*Sxy - Sx*Sy, n*Sxx - Sx^2, n*Syy - Sy^2.
corrcoef(x, y) ==
    LET n   == Len(x)
        sx  == SeqSum(x)
        sy  == SeqSum(y)
        sxy == SeqSum([k \in 1..n |-> x[k] * y[k]])
        sxx == SeqSum([k \in 1..n |-> x[k] * x[k]])
        syy == SeqSum([k \in 1..n |-> y[k] * y[k]])
    IN  [cov |-> n * sxy - sx * sy,
         vx  |-> n * sxx - sx * sx,
         vy  |-> n * syy - sy * sy]

\* The quotient cov / sqrt(vx * vy) is 0/0, NaN, when a variance is zero
\* (the values here are exact, so a constant window's variance is 0).
IsNaN(c) == c.vx = 0 \/ c.vy = 0

\* score = correlation * (1 / (1 + dtw_distance)), kept as its factors: NaN
\* when the correlation is, a finite number otherwise (the distance is
\* finite and >= 0).
Score(correlation, dtw_distance) ==
    [cov |-> correlation.cov, vx |-> correlation.vx, vy |-> correlation.vy,
     distance |-> dtw_distance]

\* ------------------------------------------------------------ the series

\* The price series the quote source may serve: a generator and a length.
\* Prices are small integers whose spread max - min is a power of two, so
\* that every normalised value and every sum of differences is exact in
\* binary floating point, as it is in the model.
ZigShape == <<0, 2, 1, 1, 2, 0>>

\* the price at 0-based day k
Price(gen, k) ==
    CASE gen = "const"   -> 10
      [] gen = "saw"     -> 10 + (k % 5)
      [] gen = "zig"     -> 10 + ZigShape[(k % 6) + 1]
      [] gen = "plateau" -> IF k < 24 THEN 12 ELSE 10 + ((k * k + k \div 3) % 5)

Series(gen, n) == [k \in 1..n |-> Price(gen, k - 1)]

\* self.data after fetch_data: the closing prices and the column of
\* normalised prices (lines 58-62)
Load(close) ==
    LET norm == normalize_series(close)
    IN  [close |-> close, norm |-> norm.num, den |-> norm.den]

None == "None"

\* self.data = None (a record, as the loaded series is, so the two compare)
NoData == [none |-> TRUE]

\* a faulty variant of DaysNeeded: the 20-sample minimum forgotten
DaysNeededNoMin(a_hours) ==
    Max2(1, CeilDiv(a_hours[1], a_hours[2] * 4))

\* days_needed of get_recent_pattern (lines 103-108); a_hours = <<p, q>> is
\* the duration p / q hours
TradingHours == 4

MinDataPoints == 20

DaysNeeded(a_hours) ==
    LET days == Max2(1, CeilDiv(a_hours[1], a_hours[2] * TradingHours))
    IN  IF days < MinDataPoints THEN MinDataPoints ELSE days

\* a faulty variant of DataInsufficient: off by one
DataInsufficientLe(len, days_needed) == len <= days_needed

\* the test of line 111: too few rows for the window
DataInsufficient(len, days_needed) == len < days_needed

\* a faulty variant of RecentPattern: end_idx is the length of the series,
\* one past its last row (end_idx = len(self.data), iloc[start_idx:end_idx])
RecentPatternEndPast(d, a_hours) ==
    LET days_needed == DaysNeeded(a_hours)
        end_idx     == Len(d.close)
        start_idx   == Max2(0, end_idx - days_needed)
    IN  IF DataInsufficient(Len(d.close), days_needed)
        THEN [err |-> "ValueError_data"]
        ELSE [err |-> "none",
              pattern   |-> Slice(d.norm, start_idx, end_idx),
              start_idx |-> start_idx,
              end_idx   |-> end_idx]

\* get_recent_pattern(a_hours) on a loaded series (lines 111-120): the error
\* raised, or the triple returned
RecentPattern(d, a_hours) ==
    LET days_needed == DaysNeeded(a_hours)
        end_idx     == Len(d.close) - 1
        start_idx   == Max2(0, end_idx - days_needed + 1)
    IN  IF DataInsufficient(Len(d.close), days_needed)
        THEN [err |-> "ValueError_data"]
        ELSE [err |-> "none",
              pattern   |-> Slice(d.norm, start_idx, end_idx + 1),
              start_idx |-> start_idx,
              end_idx   |-> end_idx]

\* a faulty variant of SearchEnd: the trailing buffer forgotten
SearchEndNoGap(recent_start, gap) == recent_start

\* search_end (line 141): the scan stops min_gap_days before the window
SearchEnd(recent_start, gap) == recent_start - gap

\* a faulty variant of HistoryInsufficient: off by one
HistoryInsufficientLe(send, pattern_length) == send <= pattern_length

\* the test of line 142: no index left to scan
HistoryInsufficient(send, pattern_length) == send < pattern_length

\* a faulty variant of ScanStart: the first window skipped
ScanStartLate(pattern_length) == pattern_length

\* the first end index of the scan loop (line 149)
ScanStart(pattern_length) == pattern_length - 1

\* hist_start of the window ending at i (line 151)
HistStart(i_, pattern_length) == i_ - pattern_length + 1

\* One pass of the scan loop (lines 150-175): the record of end index i.
\* The record's dates and pattern are the series' entries at its indices
\* and are not repeated in it.
Candidate(impl_, d, recent_pattern, i_) ==
    LET pattern_length == Len(recent_pattern)
        hist_start     == HistStart(i_, pattern_length)
        hist_end       == i_ + 1
        hist_pattern   == Slice(d.norm, hist_start, hist_end)
        dtw            == calculate_dtw_distance(impl_, recent_pattern, hist_pattern)
        correlation    == corrcoef(recent_pattern, hist_pattern)
    IN  [start_idx    |-> hist_start,
         end_idx      |-> hist_end - 1,
         dtw_distance |-> dtw.distance,
         correlation  |-> correlation,
         score        |-> Score(correlation, dtw.distance)]

\* a faulty variant of SortByDistance: the sort left out
SortNone(sims) == sims

\* a faulty variant of SortByDistance: sorted the wrong way round
SortDescending(sims) ==
    LET n    == Len(sims)
        Before(a, b) == \/ sims[a].dtw_distance > sims[b].dtw_distance
                        \/ /\ sims[a].dtw_distance = sims[b].dtw_distance
                           /\ a < b
        pos  == [b \in 1..n |-> 1 + Cardinality({a \in 1..n : Before(a, b)})]
        at   == [q \in 1..n |-> CHOOSE b \in 1..n : pos[b] = q]
    IN  [q \in 1..n |-> sims[at[q]]]

\* a faulty variant of SortByDistance: the key is the distance cut down to
\* a multiple of 8 units (a rounded key), nearly equal distances tie
SortByDistanceCoarse(sims) ==
    LET n    == Len(sims)
        Before(a, b) ==
            \/ sims[a].dtw_distance \div 8 < sims[b].dtw_distance \div 8
            \/ /\ sims[a].dtw_distance \div 8 = sims[b].dtw_distance \div 8
               /\ a < b
        pos  == [b \in 1..n |-> 1 + Cardinality({a \in 1..n : Before(a, b)})]
        at   == [q \in 1..n |-> CHOOSE b \in 1..n : pos[b] = q]
    IN  [q \in 1..n |-> sims[at[q]]]

\* a faulty variant of SortByDistance: a sort that is not stable, among
\* equal distances the later candidate comes first
SortByDistanceUnstable(sims) ==
    LET n    == Len(sims)
        Before(a, b) == \/ sims[a].dtw_distance < sims[b].dtw_distance
                        \/ /\ sims[a].dtw_distance = sims[b].dtw_distance
                           /\ a > b
        pos  == [b \in 1..n |-> 1 + Cardinality({a \in 1..n : Before(a, b)})]
        at   == [q \in 1..n |-> CHOOSE b \in 1..n : pos[b] = q]
    IN  [q \in 1..n |-> sims[at[q]]]

\* the sign of a correlation, 0 for NaN
CorrelationSign(c) ==
    IF IsNaN(c) \/ c.cov = 0 THEN 0 ELSE IF c.cov > 0 THEN 1 ELSE -1

\* a faulty variant of SortByDistance: among equal distances the candidates
\* of greater correlation sign come first (the correlation is part of the
\* sort key)
SortByDistanceThenCorrelation(sims) ==
    LET n    == Len(sims)
        Before(a, b) ==
            \/ sims[a].dtw_distance < sims[b].dtw_distance
            \/ /\ sims[a].dtw_distance = sims[b].dtw_distance
               /\ \/ CorrelationSign(sims[a].correlation)
                        > CorrelationSign(sims[b].correlation)
                  \/ /\ CorrelationSign(sims[a].correlation)
                           = CorrelationSign(sims[b].correlation)
                     /\ a < b
        pos  == [b \in 1..n |-> 1 + Cardinality({a \in 1..n : Before(a, b)})]
        at   == [q \in 1..n |-> CHOOSE b \in 1..n : pos[b] = q]
    IN  [q \in 1..n |-> sims[at[q]]]

\* similarities.sort(key=dtw_distance) (line 178): list.sort is stable
SortByDistance(sims) ==
    LET n    == Len(sims)
        Before(a, b) == \/ sims[a].dtw_distance < sims[b].dtw_distance
                        \/ /\ sims[a].dtw_distance = sims[b].dtw_distance
                           /\ a < b
        pos  == [b \in 1..n |-> 1 + Cardinality({a \in 1..n : Before(a, b)})]
        at   == [q \in 1..n |-> CHOOSE b \in 1..n : pos[b] = q]
    IN  [q \in 1..n |-> sims[at[q]]]

\* a faulty variant of Overlaps: the flag starts as True (overlap = True
\* before the loop over used_ranges), so no candidate is ever accepted
OverlapsFromStart(sim, used, gap) ==
    \/ TRUE
    \/ \E u \in 1..Len(used) :
          ~(sim.end_idx < used[u][1] - gap \/ sim.start_idx > used[u][2] + gap)

\* a faulty variant of Overlaps: plain overlap, the gap forgotten
OverlapsNoGap(sim, used, gap) ==
    \E u \in 1..Len(used) :
        ~(sim.end_idx < used[u][1] \/ sim.start_idx > used[u][2])

\* the overlap test of the selection loop (lines 186-191)
Overlaps(sim, used, gap) ==
    \E u \in 1..Len(used) :
        ~(sim.end_idx < used[u][1] - gap \/ sim.start_idx > used[u][2] + gap)

\* the selection loop (lines 184-198) from position q of the sorted list
RECURSIVE SelectFrom(_, _, _, _, _, _)
SelectFrom(sims, q, accepted, used, n, gap) ==
    IF q > Len(sims) THEN accepted
    ELSE LET sim == sims[q]
         IN  IF Overlaps(sim, used, gap)
             THEN SelectFrom(sims, q + 1, accepted, used, n, gap)
             ELSE LET filtered == Append(accepted, sim)
                  IN  IF Len(filtered) >= n THEN filtered
                      ELSE SelectFrom(sims, q + 1, filtered,
                                      Append(used, <<sim.start_idx, sim.end_idx>>),
                                      n, gap)

\* the selection pass on a list of candidates (lines 177-200): the sort,
\* then the loop
SelectionPass(sims, n, gap) ==
    SelectFrom(SortByDistance(sims), 1, <<>>, <<>>, n, gap)

\* ------------------------------------------------------------ the state

VARIABLES
    impl,                   \* the fastdtw build installed
    data,                   \* self.data: None, or the loaded series
    pc,                     \* "idle", or where the running call stands
    call,                   \* the method running or last run
    a_hours,                \* arguments of the call
    top_n,
    min_gap_days,
    recent,                 \* recent_pattern, recent_start, recent_end
    search_end,
    i,                      \* the scan loop's index
    similarities,
    filtered_similarities,
    used_ranges,
    k,                      \* the selection loop's position in similarities
    err,                    \* the exception raised, "none" if none
    fn_args,                \* arguments of the static method called
    fn_ret,                 \* what the static method returned
    \* stock_selector.py: RequestManager
    max_retries,
    base_delay,             \* in ticks of half a second
    last_request_time,
    now,                    \* time.time(), in ticks
    attempt,                \* the loop variable of retry_with_backoff
    events,                 \* calls of func and sleeps of the running
                            \* retry_with_backoff, in order
    rpc,                    \* where retry_with_backoff stands
    retry_result,           \* what retry_with_backoff returned or raised
    \* stock_selector.py: StockSelector
    op,                     \* the method whose request is running
    caller,                 \* the method that called it, None if none
    request_count,
    failed_requests,
    tech_data,              \* analyze_single_stock's local
    analysis                \* what analyze_single_stock returned

vars == <<impl, data, pc, call, a_hours, top_n, min_gap_days, recent,
          search_end, i, similarities, filtered_similarities, used_ranges,
          k, err, fn_args, fn_ret,
          max_retries, base_delay, last_request_time, now, attempt, events,
          rpc, retry_result,
          op, caller, request_count, failed_requests, tech_data, analysis>>

args == <<a_hours, top_n, min_gap_days>>

locals == <<recent, search_end, i, similarities, filtered_similarities,
            used_ranges, k>>

statics == <<fn_args, fn_ret>>

manager == <<max_retries, base_delay, last_request_time, now, attempt,
             events, rpc, retry_result>>

selector == <<op, caller, request_count, failed_requests, tech_data,
              analysis>>

\* ------------------------------------------------------------ bounds

MaxTopN == 2

MaxGap == 2

MaxSeriesLen == 100

Gens == {"const", "saw", "zig", "plateau"}

Lens == {19, 40, 41, 47, 66}

\* 8 h (2 days, raised to the minimum of 20) and 80.5 h (21 days)
Hours == {<<8, 1>>, <<161, 2>>}

TopNs == 0..MaxTopN

Gaps == 0..MaxGap

\* ------------------------------------------------------------ operations

NoLocals ==
    /\ recent' = None
    /\ search_end' = None
    /\ i' = None
    /\ similarities' = <<>>
    /\ filtered_similarities' = <<>>
    /\ used_ranges' = <<>>
    /\ k' = None

\* no RequestManager and no StockSelector constructed
NoSelector ==
    /\ max_retries = None
    /\ base_delay = None
    /\ last_request_time = None
    /\ now = None
    /\ attempt = None
    /\ events = <<>>
    /\ rpc = None
    /\ retry_result = None
    /\ op = None
    /\ caller = None
    /\ request_count = None
    /\ failed_requests = None
    /\ tech_data = None
    /\ analysis = None

\* __init__ (lines 32-33): no data yet
Init ==
    /\ impl \in Impls
    /\ data = NoData
    /\ pc = "idle"
    /\ call = None
    /\ a_hours = None
    /\ top_n = None
    /\ min_gap_days = None
    /\ recent = None
    /\ search_end = None
    /\ i = None
    /\ similarities = <<>>
    /\ filtered_similarities = <<>>
    /\ used_ranges = <<>>
    /\ k = None
    /\ err = "none"
    /\ fn_args = None
    /\ fn_ret = None
    /\ NoSelector

\* fetch_data succeeding (lines 42-65): the series served replaces self.data
FetchData(close) ==
    /\ pc = "idle"
    /\ data' = Load(close)
    /\ UNCHANGED <<impl, pc, call, args, locals, err, statics>>
    /\ UNCHANGED <<manager, selector>>

\* the exception leaving the call: nothing is returned
Raise(e) ==
    /\ pc' = "raised"
    /\ err' = e
    /\ NoLocals

\* a faulty variant of GetRecentPattern: the stored series is cut down to
\* the window (self.data = self.data.iloc[start_idx:end_idx+1])
GetRecentPatternCutting(h) ==
    /\ pc = "idle"
    /\ call' = "get_recent_pattern"
    /\ a_hours' = h
    /\ top_n' = None
    /\ min_gap_days' = None
    /\ IF data = NoData
       THEN Raise("TypeError") /\ UNCHANGED data
       ELSE LET r == RecentPattern(data, h)
            IN  IF r.err /= "none"
                THEN Raise(r.err) /\ UNCHANGED data
                ELSE /\ pc' = "returned"
                     /\ err' = "none"
                     /\ recent' = r
                     /\ data' = [data EXCEPT
                            !.close = Slice(data.close, r.start_idx, r.end_idx + 1),
                            !.norm  = r.pattern]
                     /\ UNCHANGED <<search_end, i, similarities,
                                    filtered_similarities, used_ranges, k>>
    /\ UNCHANGED <<impl, statics>>
    /\ UNCHANGED <<manager, selector>>

\* get_recent_pattern(a_hours) called by itself (lines 89-120)
GetRecentPattern(h) ==
    /\ pc = "idle"
    /\ call' = "get_recent_pattern"
    /\ a_hours' = h
    /\ top_n' = None
    /\ min_gap_days' = None
    /\ IF data = NoData
       THEN Raise("TypeError")
       ELSE LET r == RecentPattern(data, h)
            IN  IF r.err /= "none"
                THEN Raise(r.err)
                ELSE /\ pc' = "returned"
                     /\ err' = "none"
                     /\ recent' = r
                     /\ UNCHANGED <<search_end, i, similarities,
                                    filtered_similarities, used_ranges, k>>
    /\ UNCHANGED <<impl, data, statics>>
    /\ UNCHANGED <<manager, selector>>

\* find_similar_patterns(a_hours, top_n, min_gap_days) up to the scan loop
\* (lines 134-149)
FindSimilarPatterns(h, n, gap) ==
    /\ pc = "idle"
    /\ call' = "find_similar_patterns"
    /\ a_hours' = h
    /\ top_n' = n
    /\ min_gap_days' = gap
    /\ IF data = NoData
       THEN Raise("TypeError")
       ELSE LET r == RecentPattern(data, h)
            IN  IF r.err /= "none"
                THEN Raise(r.err)
                ELSE LET pattern_length == Len(r.pattern)
                         send           == SearchEnd(r.start_idx, gap)
                     IN  IF HistoryInsufficient(send, pattern_length)
                         THEN Raise("ValueError_history")
                         ELSE /\ pc' = "scan"
                              /\ err' = "none"
                              /\ recent' = r
                              /\ search_end' = send
                              /\ i' = ScanStart(pattern_length)
                              /\ similarities' = <<>>
                              /\ UNCHANGED <<filtered_similarities,
                                             used_ranges, k>>
    /\ UNCHANGED <<impl, data, statics>>
    /\ UNCHANGED <<manager, selector>>

\* One pass of the scan loop (lines 149-175); the last pass goes on to sort
\* the candidates and to start the selection (lines 177-182).
ScanStep ==
    /\ pc = "scan"
    /\ LET sims == Append(similarities,
                          Candidate(impl, data, recent.pattern, i))
       IN  IF i + 1 < search_end
           THEN /\ i' = i + 1
                /\ similarities' = sims
                /\ UNCHANGED <<pc, filtered_similarities, used_ranges, k>>
           ELSE /\ i' = i
                /\ similarities' = SortByDistance(sims)
                /\ filtered_similarities' = <<>>
                /\ used_ranges' = <<>>
                /\ k' = 1
                /\ pc' = "select"
    /\ UNCHANGED <<impl, data, call, args, recent, search_end, err, statics>>
    /\ UNCHANGED <<manager, selector>>

\* One pass of the selection loop (lines 184-198); the pass that fills the
\* result, or the last one, returns (line 200).
SelectStep ==
    /\ pc = "select"
    /\ LET sim      == similarities[k]
           overlap  == Overlaps(sim, used_ranges, min_gap_days)
           accepted == IF overlap THEN filtered_similarities
                       ELSE Append(filtered_similarities, sim)
           full     == ~overlap /\ Len(accepted) >= top_n
       IN  /\ filtered_similarities' = accepted
           /\ used_ranges' = IF overlap THEN used_ranges
                             ELSE Append(used_ranges,
                                         <<sim.start_idx, sim.end_idx>>)
           /\ IF full \/ k = Len(similarities)
              THEN pc' = "returned" /\ k' = k
              ELSE pc' = "select" /\ k' = k + 1
    /\ UNCHANGED <<impl, data, call, args, recent, search_end, i,
                   similarities, err, statics>>
    /\ UNCHANGED <<manager, selector>>

\* a static method called by itself: its arguments and what it returns
CallStatic(name, arguments, result) ==
    /\ pc = "idle"
    /\ call' = name
    /\ fn_args' = arguments
    /\ fn_ret' = result
    /\ pc' = "returned"
    /\ UNCHANGED <<impl, data, args, locals, err>>
    /\ UNCHANGED <<manager, selector>>

\* calculate_dtw_distance(pattern1, pattern2) called by itself (lines 80-87)
CalculateDtwDistance(pattern1, pattern2) ==
    CallStatic("calculate_dtw_distance", <<pattern1, pattern2>>,
               calculate_dtw_distance(impl, pattern1, pattern2))

\* normalize_series(series) called by itself (lines 71-78).  The values are
\* the fractions x.num[k] / x.den; their common denominator cancels in
\* (v - min) / (max - min), which is computed on the numerators.
NormalizeSeries(x) ==
    CallStatic("normalize_series", <<x>>, normalize_series(x.num))

\* the caller takes the result or the exception; the frame is gone
Return ==
    /\ pc \in {"returned", "raised"}
    /\ pc' = "idle"
    /\ err' = "none"
    /\ call' = None
    /\ a_hours' = None
    /\ top_n' = None
    /\ min_gap_days' = None
    /\ NoLocals
    /\ fn_args' = None
    /\ fn_ret' = None
    /\ UNCHANGED <<impl, data>>
    /\ UNCHANGED <<manager, selector>>

Fetch == \E gen \in Gens, n \in Lens : FetchData(Series(gen, n))

CallRecent == \E h \in Hours : GetRecentPattern(h)

CallFind == \E h \in Hours, n \in TopNs, gap \in Gaps : FindSimilarPatterns(h, n, gap)

Next == Fetch \/ CallRecent \/ CallFind \/ ScanStep \/ SelectStep \/ Return

Spec == Init /\ [][Next]_vars

\* ------------------------------------------------------------ the window alone

\* get_recent_pattern over every series length up to MaxSeriesLen: the
\* series is loaded, and only the window is asked for.
WindowHours == {<<8, 1>>, <<40, 1>>, <<80, 1>>, <<161, 2>>, <<81, 1>>,
                <<399, 1>>, <<400, 1>>, <<401, 1>>}

InitWindow ==
    /\ impl \in Impls
    /\ data \in {Load(Series("saw", n)) : n \in 1..MaxSeriesLen}
    /\ pc = "idle"
    /\ call = None
    /\ a_hours = None
    /\ top_n = None
    /\ min_gap_days = None
    /\ recent = None
    /\ search_end = None
    /\ i = None
    /\ similarities = <<>>
    /\ filtered_similarities = <<>>
    /\ used_ranges = <<>>
    /\ k = None
    /\ err = "none"
    /\ fn_args = None
    /\ fn_ret = None
    /\ NoSelector

CallRecentWindow == \E h \in WindowHours : GetRecentPattern(h)

NextWindow == CallRecentWindow \/ Return

SpecWindow == InitWindow /\ [][NextWindow]_vars

\* ------------------------------------------------------------ the end-to-end scenario

\* 200 prices holding one 20-sample shape three times: at days 10..29, at
\* days 150..169 and as the last 20 days 180..199; filler elsewhere.
E2EShape(shape) ==
    CASE shape = "wave" -> <<10, 11, 12, 13, 14, 13, 12, 11, 10, 11,
                             12, 14, 14, 13, 12, 11, 10, 10, 12, 14>>
      [] shape = "zig"  -> [j \in 1..20 |-> 10 + ZigShape[((j - 1) % 6) + 1]]

E2EFill(fill, j) ==
    CASE fill = "flat" -> 10
      [] fill = "saw"  -> 10 + (j % 5)

E2ESeries(shape, fill) ==
    [j \in 1..200 |->
        LET d == j - 1
        IN  IF d \in 10..29 THEN E2EShape(shape)[d - 9]
            ELSE IF d \in 150..169 THEN E2EShape(shape)[d - 149]
            ELSE IF d \in 180..199 THEN E2EShape(shape)[d - 179]
            ELSE E2EFill(fill, d)]

InitE2E ==
    /\ impl \in Impls
    /\ data \in {Load(E2ESeries(shape, fill)) :
                    shape \in {"wave", "zig"}, fill \in {"flat", "saw"}}
    /\ pc = "idle"
    /\ call = None
    /\ a_hours = None
    /\ top_n = None
    /\ min_gap_days = None
    /\ recent = None
    /\ search_end = None
    /\ i = None
    /\ similarities = <<>>
    /\ filtered_similarities = <<>>
    /\ used_ranges = <<>>
    /\ k = None
    /\ err = "none"
    /\ fn_args = None
    /\ fn_ret = None
    /\ NoSelector

\* the scenario's call: the last 20 samples, top_n = 1, min_gap_days = 30
CallE2E == FindSimilarPatterns(<<80, 1>>, 1, 30)

NextE2E == CallE2E \/ ScanStep \/ SelectStep \/ Return

SpecE2E == InitE2E /\ [][NextE2E]_vars

\* ------------------------------------------------------------ the elastic
\* distance on its own

MaxDtwLen == 6

MaxSelfLen == 10

DtwValues == {0, 1}

\* the sequences of 1..n samples
SeqsUpTo(n) == UNION {[1..m -> DtwValues] : m \in 1..n}

\* the pairs compared: every two short sequences, and every longer sequence
\* with itself
DtwPairs ==
    (SeqsUpTo(MaxDtwLen) \X SeqsUpTo(MaxDtwLen))
        \cup {<<a, a>> : a \in SeqsUpTo(MaxSelfLen)}

CallDistance == \E p \in DtwPairs : CalculateDtwDistance(p[1], p[2])

NextDtw == CallDistance \/ Return

SpecDtw == Init /\ [][NextDtw]_vars

\* ------------------------------------------------------------ the normalizer
\* on its own

MaxNormLen == 4

MaxNormVal == 3

\* the values n / d, n in -1..MaxNormVal, and d = 1 or d = MaxNormVal (the
\* latter puts the non-negative ones in [0, 1])
NormInputs ==
    {[num |-> n, den |-> d] :
        n \in UNION {[1..m -> -1..MaxNormVal] : m \in 1..MaxNormLen},
        d \in {1, MaxNormVal}}

CallNormalize == \E x \in NormInputs : NormalizeSeries(x)

NextNormalize == CallNormalize \/ Return

SpecNormalize == Init /\ [][NextNormalize]_vars

\* ------------------------------------------------------------
\* stock_selector.py: RequestManager

\* Times are in ticks of half a second.

\* self.min_interval = 1.5 (line 46)
MinInterval == 3

MaxRetries == 4

MaxClock == 4

\* max_retries of a RequestManager; with 0 the loop of retry_with_backoff
\* is not entered
RetryCounts == 0..MaxRetries

\* base_delay: 0.5 s, and the 1.5 s StockSelector uses
BaseDelays == {1, 3}

\* what a call of func may do: return a value, raise an Exception, raise
\* an exception that is not an Exception
Values == {"v1"}

Exceptions == {"e1", "e2"}

BaseExceptions == {"KeyboardInterrupt"}

FuncOutcomes == Values \cup Exceptions \cup BaseExceptions

\* the time a call of func takes
FuncTimes == {0, 1}

RECURSIVE Pow2(_)
Pow2(n) == IF n = 0 THEN 1 ELSE 2 * Pow2(n - 1)

\* a faulty variant of Backoff: the wait grows linearly,
\* base_delay * (attempt + 1)
BackoffLinear(delay, attempt_) == delay * (attempt_ + 1)

\* wait_time = self.base_delay * (2 ** attempt) (line 73)
Backoff(delay, attempt_) == delay * Pow2(attempt_)

\* a faulty variant of LastAttempt: one attempt more is made
\* (attempt < self.max_retries)
LastAttemptLate(attempt_, retries) == ~(attempt_ < retries)

\* the else of line 76: not attempt < self.max_retries - 1 (line 72)
LastAttempt(attempt_, retries) == ~(attempt_ < retries - 1)

\* wait_for_interval (lines 55-62): the time slept
IntervalSleep(last, time) ==
    LET elapsed == time - last
    IN  IF elapsed < MinInterval THEN MinInterval - elapsed ELSE 0

CallEvent(outcome, ticks) ==
    [type |-> "call", what |-> outcome, ticks |-> ticks]

SleepEvent(why, ticks) ==
    [type |-> "sleep", what |-> why, ticks |-> ticks]

\* RequestManager(max_retries, base_delay) (lines 42-47) at a time at which
\* the first request does not wait
RequestManagerInit(retries, delay) ==
    /\ max_retries = retries
    /\ base_delay = delay
    /\ last_request_time = 0
    /\ now = MinInterval
    /\ attempt = None
    /\ events = <<>>
    /\ rpc = "idle"
    /\ retry_result = None

\* the matcher of stock_pattern_matcher.py is not running
NoMatcher ==
    /\ impl \in Impls
    /\ data = NoData
    /\ pc = "idle"
    /\ call = None
    /\ a_hours = None
    /\ top_n = None
    /\ min_gap_days = None
    /\ recent = None
    /\ search_end = None
    /\ i = None
    /\ similarities = <<>>
    /\ filtered_similarities = <<>>
    /\ used_ranges = <<>>
    /\ k = None
    /\ err = "none"
    /\ fn_args = None
    /\ fn_ret = None

matcher == <<impl, data, pc, call, args, locals, err, statics>>

\* retry_with_backoff(func) is called (lines 64-66): the loop is entered,
\* or passed over when max_retries = 0 (line 79)
StartRetry ==
    /\ rpc = "idle"
    /\ now <= MaxClock
    /\ attempt' = 0
    /\ events' = <<>>
    /\ IF max_retries = 0
       THEN rpc' = "returned" /\ retry_result' = [kind |-> "value", what |-> None]
       ELSE rpc' = "attempt" /\ retry_result' = None
    /\ UNCHANGED <<max_retries, base_delay, last_request_time, now>>

\* one pass of the loop (lines 66-78): the wait for the interval, the call
\* of func, which takes ticks and ends as outcome says, and the handler
RetryAttempt(outcome, ticks) ==
    /\ rpc = "attempt"
    /\ LET sleep_time == IntervalSleep(last_request_time, now)
           called     == now + sleep_time
           waited     == IF sleep_time > 0
                         THEN <<SleepEvent("interval", sleep_time)>>
                         ELSE <<>>
           log        == events \o waited \o <<CallEvent(outcome, ticks)>>
           wait_time  == Backoff(base_delay, attempt)
       IN  /\ last_request_time' = called
           /\ IF outcome \in Values
              THEN /\ rpc' = "returned"
                   /\ retry_result' = [kind |-> "value", what |-> outcome]
                   /\ events' = log
                   /\ now' = called + ticks
                   /\ UNCHANGED attempt
              ELSE IF outcome \in Exceptions /\ ~LastAttempt(attempt, max_retries)
              THEN /\ events' = Append(log, SleepEvent("backoff", wait_time))
                   /\ now' = called + ticks + wait_time
                   /\ attempt' = attempt + 1
                   /\ UNCHANGED <<rpc, retry_result>>
              ELSE /\ rpc' = "raised"
                   /\ retry_result' = [kind |-> "exception", what |-> outcome]
                   /\ events' = log
                   /\ now' = called + ticks
                   /\ UNCHANGED attempt
    /\ UNCHANGED <<max_retries, base_delay>>

\* the caller of retry_with_backoff takes the value or the exception
RetryDone ==
    /\ rpc \in {"returned", "raised"}
    /\ rpc' = "idle"
    /\ UNCHANGED <<max_retries, base_delay, last_request_time, now, attempt,
                   events, retry_result>>

InitRetry ==
    /\ NoMatcher
    /\ \E retries \in RetryCounts, delay \in BaseDelays :
          RequestManagerInit(retries, delay)
    /\ op = None
    /\ caller = None
    /\ request_count = None
    /\ failed_requests = None
    /\ tech_data = None
    /\ analysis = None

CallRetry == StartRetry /\ UNCHANGED <<matcher, selector>>

Attempt ==
    /\ \E outcome \in FuncOutcomes, ticks \in FuncTimes :
          RetryAttempt(outcome, ticks)
    /\ UNCHANGED <<matcher, selector>>

RetryReturn == op = None /\ RetryDone /\ UNCHANGED <<matcher, selector>>

NextRetry == CallRetry \/ Attempt \/ RetryReturn

SpecRetry == InitRetry /\ [][NextRetry]_vars

\* ------------------------------------------------------------
\* stock_selector.py: StockSelector

\* what calculate_technical_indicators reads off the latest rows of the
\* price history (lines 305-347): the comparisons it makes, and the points
\* min(5, max(0, boll_position * 5)) of the Bollinger position.  BOLL_MID
\* and MA20 are one rolling mean, so close > MA20 and close > BOLL_MID are
\* one comparison.  The comparisons are taken as independent, which leaves
\* out no score a price history can give.
BollPoints == {0, 2, 5}

TechInputs ==
    [ma5_gt_ma10 : BOOLEAN, ma10_gt_ma20 : BOOLEAN, close_gt_ma20 : BOOLEAN,
     dif_gt_dea : BOOLEAN, prev_dif_le_dea : BOOLEAN, boll : BollPoints,
     vol_gt_ma5 : BOOLEAN, vol_ma5_gt_ma10 : BOOLEAN, up_volume : BOOLEAN,
     change_5d_in : BOOLEAN, change_20d_in : BOOLEAN]

Min2(a, b) == IF a <= b THEN a ELSE b

\* trend_score (lines 304-323)
TrendScore(t) ==
    LET ma   == IF t.ma5_gt_ma10 /\ t.ma10_gt_ma20 THEN 10
                ELSE IF t.ma5_gt_ma10 THEN 5 ELSE 0
        ma20 == IF t.close_gt_ma20 THEN 5 ELSE 0
        macd == IF t.dif_gt_dea /\ t.prev_dif_le_dea THEN 10
                ELSE IF t.dif_gt_dea THEN 5 ELSE 0
        boll == IF t.close_gt_ma20 THEN t.boll ELSE 0
    IN  Min2(25, ma + ma20 + macd + boll)

\* volume_price_score (lines 325-351)
VolumePriceScore(t) ==
    LET vol == IF t.vol_gt_ma5 /\ t.vol_ma5_gt_ma10 THEN 10
               ELSE IF t.vol_gt_ma5 THEN 5 ELSE 0
        up  == IF t.up_volume THEN 8 ELSE 0
        c5  == IF t.change_5d_in THEN 4 ELSE 0
        c20 == IF t.change_20d_in THEN 3 ELSE 0
    IN  Min2(25, vol + up + c5 + c20)

\* the dictionary calculate_technical_indicators returns (lines 353-362):
\* the scores and the two flags
TechData(t) ==
    [trend_score        |-> TrendScore(t),
     volume_price_score |-> VolumePriceScore(t),
     macd_golden_cross  |-> t.dif_gt_dea /\ t.prev_dif_le_dea,
     ma_bull            |-> t.ma5_gt_ma10 /\ t.ma10_gt_ma20]

\* 'fund_score': 10, what fetch_fund returns (line 384) and what the
\* handler of get_fund_flow returns (line 400)
FundScore == 10

\* stock codes: the number int(stock_code), or a code that is not a number
StockCodes ==
    {[numeric |-> TRUE, code_int |-> c] : c \in {1, 2, 300750, 600000, 600600}}
        \cup {[numeric |-> FALSE, code_int |-> 0]}

\* concept_score of get_stock_concept (lines 409-445)
ConceptScore(stock_code) ==
    IF ~stock_code.numeric THEN 5
    ELSE LET c   == stock_code.code_int
             hit(d) == IF c % d = 0 THEN 3 ELSE 0
         IN  Min2(25, 5 + hit(5) + hit(7) + hit(11) + hit(3) + hit(4))

\* total_score (lines 466-472)
TotalScore(tech, fund_score, concept_score) ==
    tech.trend_score + tech.volume_price_score + fund_score + concept_score

\* _get_grade (lines 629-642)
get_grade(score) ==
    IF score >= 85 THEN "A+"
    ELSE IF score >= 75 THEN "A"
    ELSE IF score >= 65 THEN "B"
    ELSE IF score >= 55 THEN "C"
    ELSE IF score >= 45 THEN "D"
    ELSE "E"

\* what analyze_single_stock returns (lines 474-495): the scores, and the
\* grade print_single_stock_result shows for the total (line 596)
Analysis(tech, stock_code) ==
    LET total == TotalScore(tech, FundScore, ConceptScore(stock_code))
    IN  [kind               |-> "result",
         trend_score        |-> tech.trend_score,
         volume_price_score |-> tech.volume_price_score,
         fund_score         |-> FundScore,
         concept_score      |-> ConceptScore(stock_code),
         total_score        |-> total,
         grade              |-> get_grade(total)]

NoAnalysis == [kind |-> "None"]

NoCaller == [method |-> "none", stock_code |-> [numeric |-> FALSE, code_int |-> 0]]

NoTechData == [kind |-> "None"]

MaxRequests == 3

\* StockSelector() (lines 85-97): its RequestManager(max_retries=3,
\* base_delay=1.5) and the two counters
StockSelectorInit ==
    /\ RequestManagerInit(3, 3)
    /\ op = None
    /\ caller = NoCaller
    /\ request_count = 0
    /\ failed_requests = 0
    /\ tech_data = NoTechData
    /\ analysis = NoAnalysis

\* a method of StockSelector hands its request to retry_with_backoff
\* (lines 147, 261, 392)
StartRequest(name, from) ==
    /\ op = None
    /\ request_count + failed_requests < MaxRequests
    /\ StartRetry
    /\ op' = name
    /\ caller' = from
    /\ UNCHANGED <<request_count, failed_requests, tech_data, analysis>>

\* the request is over and its exception, if any, is one the method's
\* handler catches
RequestOver(name) ==
    /\ op = name
    /\ rpc \in {"returned", "raised"}
    /\ retry_result.what \notin BaseExceptions

\* the method returns to a caller outside the class
Leave ==
    /\ op' = None
    /\ caller' = NoCaller
    /\ rpc' = "idle"
    /\ UNCHANGED <<max_retries, base_delay, last_request_time, now, attempt,
                   events, retry_result>>

\* get_stock_list, _fetch_sina_stock_list (lines 99-224) after the request:
\* the request counted (line 148) and the text parsed and filtered, which
\* gives a list, nothing, or raises; an exception is counted as a failure
\* once, by the handler that catches it (line 222 or line 134)
FinishStockList(parsing) ==
    /\ RequestOver("get_stock_list")
    /\ IF rpc = "raised"
       THEN /\ failed_requests' = failed_requests + 1
            /\ UNCHANGED request_count
       ELSE /\ request_count' = request_count + 1
            /\ failed_requests' = IF parsing = "raises"
                                  THEN failed_requests + 1
                                  ELSE failed_requests
    /\ Leave
    /\ UNCHANGED <<tech_data, analysis>>

\* calculate_technical_indicators (lines 260-366) after the request: the
\* request counted (line 262), None for a history of fewer than 30 rows
\* (line 264), else the scores; a failed request, or an exception of the
\* computation, is counted as a failure (line 365).
\* Called by analyze_single_stock, None ends the analysis (lines 455-456)
\* and the scores lead on to get_fund_flow (line 459).
FinishTechnical(t, computing) ==
    /\ RequestOver("calculate_technical_indicators")
    /\ IF rpc = "raised"
       THEN /\ failed_requests' = failed_requests + 1
            /\ UNCHANGED request_count
       ELSE /\ request_count' = request_count + 1
            /\ failed_requests' = IF computing = "raises"
                                  THEN failed_requests + 1
                                  ELSE failed_requests
    /\ LET tech == IF rpc = "raised" \/ computing /= "scores" THEN NoTechData
                   ELSE [kind |-> "result"] @@ TechData(t)
       IN  /\ tech_data' = tech
           /\ IF caller.method /= "analyze_single_stock"
              THEN Leave /\ UNCHANGED analysis
              ELSE IF tech = NoTechData
              THEN Leave /\ analysis' = NoAnalysis
              ELSE /\ op' = "get_fund_flow"
                   /\ attempt' = 0
                   /\ events' = <<>>
                   /\ rpc' = "attempt"
                   /\ UNCHANGED <<caller, analysis, max_retries, base_delay,
                                  last_request_time, now, retry_result>>

\* get_fund_flow (lines 392-405) after the request: counted (line 393), or
\* counted as a failure (line 397); fund_score is 10 either way.  Called by
\* analyze_single_stock, the concept score and the total follow
\* (lines 463-495).
FinishFundFlow ==
    /\ RequestOver("get_fund_flow")
    /\ IF rpc = "raised"
       THEN /\ failed_requests' = failed_requests + 1
            /\ UNCHANGED request_count
       ELSE /\ request_count' = request_count + 1
            /\ UNCHANGED failed_requests
    /\ analysis' = IF caller.method = "analyze_single_stock"
                   THEN Analysis(tech_data, caller.stock_code)
                   ELSE analysis
    /\ Leave
    /\ UNCHANGED tech_data

InitSelector == NoMatcher /\ StockSelectorInit

GetStockList == StartRequest("get_stock_list", NoCaller)

CalculateTechnicalIndicators ==
    StartRequest("calculate_technical_indicators", NoCaller)

GetFundFlow == StartRequest("get_fund_flow", NoCaller)

AnalyzeSingleStock ==
    \E code \in StockCodes :
        StartRequest("calculate_technical_indicators",
                     [method |-> "analyze_single_stock", stock_code |-> code])

StockListDone == \E parsing \in {"list", "nothing", "raises"} : FinishStockList(parsing)

\* the histories the requests of a run bring back: the trend conditions all
\* met or all missed, and the volume conditions likewise
TechSamples ==
    {t \in TechInputs :
        /\ {t.ma5_gt_ma10, t.ma10_gt_ma20, t.close_gt_ma20, t.dif_gt_dea,
            t.prev_dif_le_dea} \in {{TRUE}, {FALSE}}
        /\ {t.vol_gt_ma5, t.vol_ma5_gt_ma10, t.up_volume, t.change_5d_in,
            t.change_20d_in} \in {{TRUE}, {FALSE}}}

TechnicalDone ==
    \E t \in TechSamples, computing \in {"scores", "short", "raises"} :
        FinishTechnical(t, computing)

\* one call of the request function under the selector's RequestManager
Request ==
    /\ op /= None
    /\ \E outcome \in Values \cup {"e1"} \cup BaseExceptions :
          RetryAttempt(outcome, 0)
    /\ UNCHANGED <<matcher, selector>>

NextSelector ==
    \/ (GetStockList /\ UNCHANGED matcher)
    \/ (CalculateTechnicalIndicators /\ UNCHANGED matcher)
    \/ (GetFundFlow /\ UNCHANGED matcher)
    \/ (AnalyzeSingleStock /\ UNCHANGED matcher)
    \/ Request
    \/ (StockListDone /\ UNCHANGED matcher)
    \/ (TechnicalDone /\ UNCHANGED matcher)
    \/ (FinishFundFlow /\ UNCHANGED matcher)

SpecSelector == InitSelector /\ [][NextSelector]_vars

\* ------------------------------------------------------------ properties

\* find_similar_patterns is running or has ended
Finding == call = "find_similar_patterns"

\* find_similar_patterns has returned its list, filtered_similarities
Returned == Finding /\ pc = "returned"

\* a and b are separated by more than gap
Separated(a, b, gap) ==
    a.end_idx < b.start_idx - gap \/ a.start_idx > b.end_idx + gap

\* the day count the specification gives: max(ceil(hours / 4), 20)
SpecDays(h) == Max2(CeilDiv(h[1], h[2] * 4), 20)

\* C1: any two distinct matches selected (and so any two returned) are
\* separated by more than min_gap_days: u.end < v.start - gap or
\* u.start > v.end + gap.
C1_GapRespected ==
    \A a, b \in 1..Len(filtered_similarities) :
        a /= b => Separated(filtered_similarities[a],
                            filtered_similarities[b], min_gap_days)

\* two matches returned under a gap of at least one day
C1_Witness ==
    /\ Returned
    /\ Len(filtered_similarities) >= 2
    /\ min_gap_days >= 1

\* C2: the list returned has at most top_n matches, for every top_n >= 0.
C2_LengthAtMostTopN ==
    Returned => Len(filtered_similarities) <= top_n

\* C3: the matches selected (and so those returned) are in ascending order
\* of dtw_distance.
C3_SortedByDistance ==
    \A a, b \in 1..Len(filtered_similarities) :
        a < b => filtered_similarities[a].dtw_distance
                    <= filtered_similarities[b].dtw_distance

\* two matches of different distance returned
C3_Witness ==
    /\ Returned
    /\ Len(filtered_similarities) >= 2
    /\ filtered_similarities[1].dtw_distance
          < filtered_similarities[2].dtw_distance

\* C4 as stated: in the end-to-end scenario the one match returned has
\* distance 0 and covers days 150..169.
C4_ReturnsSecondCopy ==
    Returned =>
        /\ Len(filtered_similarities) = 1
        /\ filtered_similarities[1].dtw_distance = 0
        /\ filtered_similarities[1].start_idx = 150
        /\ filtered_similarities[1].end_idx = 169

\* C4 as amended: in the end-to-end scenario exactly one match is returned;
\* it ends before day 150 = recent_start - min_gap_days, so it is never the
\* copy at 150..169, and its distance is the least of the candidates
\* scanned, hence at most that of the copy at 10..29.
C4_ReturnsBestBeforeBuffer ==
    Returned =>
        /\ Len(filtered_similarities) = 1
        /\ filtered_similarities[1].end_idx < 150
        /\ \A c \in 1..Len(similarities) :
              filtered_similarities[1].dtw_distance
                  <= similarities[c].dtw_distance
        /\ \E c \in 1..Len(similarities) :
              /\ similarities[c].start_idx = 10
              /\ similarities[c].end_idx = 29
              /\ filtered_similarities[1].dtw_distance
                    <= similarities[c].dtw_distance

\* the scenario returning the copy at 10..29 at distance 0
C4_Witness ==
    /\ Returned
    /\ Len(filtered_similarities) = 1
    /\ filtered_similarities[1].start_idx = 10
    /\ filtered_similarities[1].end_idx = 29
    /\ filtered_similarities[1].dtw_distance = 0

\* the prices of days lo..hi are all equal
ConstantPrices(lo, hi) ==
    \A d \in lo..hi : data.close[d + 1] = data.close[lo + 1]

\* C5: a candidate whose window has constant prices, compared with a
\* reference window that varies, is recorded with correlation 0 (not NaN)
\* and a finite score.
C5_DegenerateCorrelationZero ==
    (Finding /\ pc \in {"scan", "select", "returned"}) =>
        \A c \in 1..Len(similarities) :
            (/\ ConstantPrices(similarities[c].start_idx,
                               similarities[c].end_idx)
             /\ ~ConstantPrices(recent.start_idx, recent.end_idx))
            => /\ ~IsNaN(similarities[c].correlation)
               /\ similarities[c].correlation.cov = 0
               /\ ~IsNaN(similarities[c].score)

\* C6: every candidate scanned and every match selected ends before the
\* trailing buffer: end_idx < recent_start - min_gap_days.
C6_TrailingBuffer ==
    (Finding /\ pc \in {"scan", "select", "returned"}) =>
        /\ \A c \in 1..Len(similarities) :
              similarities[c].end_idx < recent.start_idx - min_gap_days
        /\ \A c \in 1..Len(filtered_similarities) :
              filtered_similarities[c].end_idx
                  < recent.start_idx - min_gap_days

\* a match returned that ends on the last day before the buffer
C6_Witness ==
    /\ Returned
    /\ min_gap_days >= 1
    /\ \E c \in 1..Len(filtered_similarities) :
          filtered_similarities[c].end_idx
              = recent.start_idx - min_gap_days - 1

\* C7: when the scan has ended, there is exactly one candidate for each end
\* index i with pattern_length - 1 <= i < recent_start - min_gap_days and no
\* other, and the candidate of i covers i - pattern_length + 1 .. i.
C7_OneCandidatePerIndex ==
    (Finding /\ pc \in {"select", "returned"}) =>
        LET pattern_length == Len(recent.pattern)
            ends == {e \in 0..Len(data.close) :
                        /\ pattern_length - 1 <= e
                        /\ e < recent.start_idx - min_gap_days}
        IN  /\ Len(similarities) = Cardinality(ends)
            /\ \A e \in ends :
                  \E c \in 1..Len(similarities) : similarities[c].end_idx = e
            /\ \A c \in 1..Len(similarities) :
                  /\ similarities[c].end_idx \in ends
                  /\ similarities[c].start_idx
                        = similarities[c].end_idx - pattern_length + 1

\* a scan that produced several candidates
C7_Witness ==
    /\ Finding
    /\ pc = "select"
    /\ Len(similarities) >= 3

\* the end indices the specification makes eligible, from the arguments
EligibleEnds ==
    LET n     == Len(data.close)
        days  == SpecDays(a_hours)
        start == Max2(0, n - days)
    IN  {e \in 0..n : days - 1 <= e /\ e < start - min_gap_days}

\* C8: find_similar_patterns raises, with nothing returned, if and only if
\* the reference window cannot be formed (no data, or fewer rows than days)
\* or no end index is eligible; otherwise the scan proceeds.
C8_FailsIffNoRange ==
    (Finding /\ pc /= "idle") =>
        /\ (pc = "raised") <=>
              (\/ data = NoData
               \/ Len(data.close) < SpecDays(a_hours)
               \/ EligibleEnds = {})
        /\ pc = "raised" =>
              similarities = <<>> /\ filtered_similarities = <<>>

\* the window is formed but no end index is eligible
C8_Witness ==
    /\ Finding
    /\ pc = "raised"
    /\ data /= NoData
    /\ Len(data.close) >= 2 * SpecDays(a_hours)
    /\ err = "ValueError_history"

\* get_recent_pattern has ended
WindowAsked == call = "get_recent_pattern" /\ pc \in {"returned", "raised"}

\* C9: with n >= days rows, days = max(ceil(hours / 4), 20),
\* get_recent_pattern returns the window end = n - 1,
\* start = max(0, end - days + 1), of exactly days samples.
C9_TrailingWindow ==
    (WindowAsked /\ Len(data.close) >= SpecDays(a_hours)) =>
        /\ pc = "returned"
        /\ recent.end_idx = Len(data.close) - 1
        /\ recent.start_idx
              = Max2(0, recent.end_idx - SpecDays(a_hours) + 1)
        /\ recent.end_idx - recent.start_idx + 1 = SpecDays(a_hours)
        /\ Len(recent.pattern) = SpecDays(a_hours)

\* 100 rows, 8 hours: the window 80..99 of 20 samples
C9_Witness ==
    /\ WindowAsked
    /\ pc = "returned"
    /\ Len(data.close) = 100
    /\ a_hours = <<8, 1>>
    /\ recent.start_idx = 80
    /\ recent.end_idx = 99
    /\ Len(recent.pattern) = 20

\* C10: get_recent_pattern raises the insufficient-data error exactly when
\* the series has fewer rows than days (after the 20-sample minimum), and
\* then returns no window.
C10_FailsIffTooShort ==
    WindowAsked =>
        /\ (pc = "raised") <=> (Len(data.close) < SpecDays(a_hours))
        /\ pc = "raised" => err = "ValueError_data"
        /\ pc = "returned" => err = "none"

\* 10 rows, 40 hours: 10 days asked, 20 needed
C10_Witness ==
    /\ WindowAsked
    /\ pc = "raised"
    /\ err = "ValueError_data"
    /\ Len(data.close) = 10
    /\ a_hours = <<40, 1>>

\* ------------------------------------------------------------ C11

\* the least of three cumulative costs
Min3(up, left, corner) ==
    LET m == IF CostLt(left, up) THEN left ELSE up
    IN  IF CostLt(corner, m) THEN corner ELSE m

\* row i of the full grid, cells 1..Len(b): cur holds the cells filled so
\* far, prev is row i - 1 (cells 0..Len(b))
RECURSIVE ExactRow(_, _, _, _)
ExactRow(ai, b, prev, cur) ==
    IF Len(cur) = Len(b) THEN cur
    ELSE LET j      == Len(cur) + 1
             left   == IF j = 1 THEN Inf ELSE cur[j - 1]
             up     == prev[j + 1]
             corner == prev[j]
         IN  ExactRow(ai, b, prev,
                      Append(cur, CostAdd(Min3(up, left, corner),
                                          Abs(ai - b[j]))))

RECURSIVE ExactRows(_, _, _, _)
ExactRows(a, b, i_, prev) ==
    IF i_ > Len(a) THEN prev[Len(b) + 1]
    ELSE ExactRows(a, b, i_ + 1, <<Inf>> \o ExactRow(a[i_], b, prev, <<>>))

\* the exact warping cost: the terminal cell of the full grid with
\* cost(i,j) = |a[i]-b[j]| + min(cost(i-1,j), cost(i,j-1), cost(i-1,j-1))
\* and cost(0,0) = 0
ExactDtwCost(a, b) ==
    ExactRows(a, b, 1, <<0>> \o [j \in 1..Len(b) |-> Inf])

\* calculate_dtw_distance has returned
DistanceReturned == call = "calculate_dtw_distance" /\ pc = "returned"

\* C11: the distance calculate_dtw_distance(a, b) returns is the exact
\* dynamic-time-warping cost of a and b, for all non-empty a and b.
C11_DistanceIsExact ==
    DistanceReturned =>
        fn_ret.distance = ExactDtwCost(fn_args[1], fn_args[2])

\* ------------------------------------------------------------ C12

\* C12: calculate_dtw_distance(a, a) returns exactly 0, and the distance of
\* any two non-empty sequences is at least 0.
C12_SelfDistanceZero ==
    DistanceReturned =>
        /\ fn_ret.distance >= 0
        /\ fn_args[1] = fn_args[2] => fn_ret.distance = 0

\* ------------------------------------------------------------ C13

\* C13: calculate_dtw_distance(a, b) and calculate_dtw_distance(b, a)
\* return the same distance.
C13_Symmetric ==
    DistanceReturned =>
        fn_ret.distance =
            calculate_dtw_distance(impl, fn_args[2], fn_args[1]).distance

\* ------------------------------------------------------------ C14

\* normalize_series has returned
Normalized == call = "normalize_series" /\ pc = "returned"

\* v is the least (sign = 1) or the greatest (sign = -1) value of s
Extreme(s, v, sign) ==
    /\ \E m \in 1..Len(s) : s[m] = v
    /\ \A m \in 1..Len(s) : sign * v <= sign * s[m]

IsConstant(s) == \A j, m \in 1..Len(s) : s[j] = s[m]

\* C14: for a non-constant x, normalize_series(x) has the length of x,
\* every element lies in [0, 1], the minimum is 0, the maximum is 1, and
\* each element is (v - min) / (max - min).
C14_NormalizedRange ==
    Normalized /\ ~IsConstant(fn_args[1].num) =>
        LET x == fn_args[1].num
            y == fn_ret
        IN  /\ Len(y.num) = Len(x)
            /\ y.den > 0
            /\ \A m \in 1..Len(x) : 0 <= y.num[m] /\ y.num[m] <= y.den
            /\ Extreme(y.num, 0, 1)
            /\ Extreme(y.num, y.den, -1)
            /\ \E lo, hi \in Range(x) :
                  /\ Extreme(x, lo, 1)
                  /\ Extreme(x, hi, -1)
                  /\ \A m \in 1..Len(x) :
                        y.num[m] * (hi - lo) = (x[m] - lo) * y.den

\* a series with negative and repeated values has been normalised
C14_Witness ==
    /\ Normalized
    /\ fn_args[1].num = <<2, -1, 2, 0>>
    /\ fn_ret.num = <<3, 0, 3, 1>>
    /\ fn_ret.den = 3

\* ------------------------------------------------------------ C15

\* C15: for a series whose elements are all equal, normalize_series returns
\* zeros, as many as the series has elements, and divides by nothing that
\* is zero.
C15_ConstantGivesZeros ==
    Normalized /\ IsConstant(fn_args[1].num) =>
        /\ Len(fn_ret.num) = Len(fn_args[1].num)
        /\ fn_ret.den /= 0
        /\ \A m \in 1..Len(fn_ret.num) : fn_ret.num[m] = 0

\* a constant series of three non-zero values has been normalised
C15_Witness ==
    /\ Normalized
    /\ fn_args[1].num = <<2, 2, 2>>
    /\ fn_ret.num = <<0, 0, 0>>

\* ------------------------------------------------------------ C16

\* every value of x lies in [0, 1]
InUnitInterval(x) ==
    \A m \in 1..Len(x.num) : 0 <= x.num[m] /\ x.num[m] <= x.den

\* C16: for a non-constant x with values in [0, 1], normalising
\* normalize_series(x) again gives normalize_series(x), element for element.
C16_Idempotent ==
    Normalized /\ InUnitInterval(fn_args[1])
               /\ ~IsConstant(fn_args[1].num) =>
        LET y == fn_ret
            z == normalize_series(y.num)
        IN  /\ Len(z.num) = Len(y.num)
            /\ \A m \in 1..Len(y.num) :
                  z.num[m] * y.den = y.num[m] * z.den

\* the series 1/3, 2/3, 2/3, which normalisation changes, has been
\* normalised
C16_Witness ==
    /\ Normalized
    /\ fn_args[1] = [num |-> <<1, 2, 2>>, den |-> 3]
    /\ fn_ret.num = <<0, 1, 1>>
    /\ fn_ret.den = 1

\* ------------------------------------------------------------ C17

\* the windows of a list of candidates, in its order
Windows(sims) ==
    [q \in 1..Len(sims) |-> <<sims[q].start_idx, sims[q].end_idx>>]

\* the candidates in the order the scan appended them
ScanOrder(sims) ==
    [q \in 1..Len(sims) |->
        CHOOSE c \in Range(sims) : c.end_idx = sims[1].end_idx
            - Cardinality({d \in Range(sims) : d.end_idx < sims[1].end_idx})
            + q - 1]

Rescorings == {"nan", "parity", "late"}

\* another correlation for the candidate of window [start_idx, end_idx]:
\* NaN, or 1 and -1 by the parity of start_idx, or falling with start_idx
OtherCorrelation(sim, v) ==
    IF v = "nan" THEN [cov |-> 0, vx |-> 0, vy |-> 0]
    ELSE IF v = "parity"
         THEN [cov |-> 2 * (sim.start_idx % 2) - 1, vx |-> 1, vy |-> 1]
         ELSE [cov |-> 0 - sim.start_idx, vx |-> 100, vy |-> 100]

\* the list with the same windows and distances, and other correlations and
\* scores
Rescore(sims, v) ==
    [q \in 1..Len(sims) |->
        [sims[q] EXCEPT
            !.correlation = OtherCorrelation(sims[q], v),
            !.score = Score(OtherCorrelation(sims[q], v), sims[q].dtw_distance)]]

\* C17: two candidate lists that agree on every window and distance and
\* differ in correlation and score (NaN included) give the same windows,
\* in the same order, in the selection pass.
C17_DistanceSoleKey ==
    Returned =>
        \A v \in Rescorings :
            Windows(SelectionPass(Rescore(ScanOrder(similarities), v),
                                  top_n, min_gap_days))
                = Windows(filtered_similarities)

\* two matches were returned from a list in which two candidates have one
\* distance and the correlations are numbers
C17_Witness ==
    /\ Returned
    /\ Len(filtered_similarities) = 2
    /\ ~IsNaN(similarities[1].correlation)
    /\ \E a, b \in 1..Len(similarities) :
          /\ a < b
          /\ similarities[a].dtw_distance = similarities[b].dtw_distance

\* ------------------------------------------------------------ C18

\* the windows whose patterns the search compares: the reference window
\* and the windows of the candidates computed so far
ComparedWindows ==
    {<<recent.start_idx, recent.end_idx>>}
        \cup {<<similarities[q].start_idx, similarities[q].end_idx>> :
                    q \in 1..Len(similarities)}

\* the pattern compared for the window w: the search's slice of the
\* normalised column (lines 118, 154), over the denominator data.den
ComparedPattern(w) == Slice(data.norm, w[1], w[2] + 1)

\* C18: the pattern compared for the reference window and for each
\* candidate window is the min-max normalisation of the window's own
\* prices: minimum 0 and maximum 1 when the window's prices are not all
\* equal, all zeros when they are.
C18_WindowNormalised ==
    Finding /\ pc \in {"scan", "select", "returned"} =>
        \A w \in ComparedWindows :
            LET prices  == Slice(data.close, w[1], w[2] + 1)
                pattern == ComparedPattern(w)
            IN  IF IsConstant(prices)
                THEN \A m \in 1..Len(pattern) : pattern[m] = 0
                ELSE /\ Extreme(pattern, 0, 1)
                     /\ Extreme(pattern, data.den, -1)

\* ------------------------------------------------------------ C19

\* the candidate sim is separated from every range accepted so far
SeparatedFromAll(sim, accepted, gap) ==
    \A u \in 1..Len(accepted) : Separated(sim, accepted[u], gap)

\* one visit of the selection: the candidate similarities[k] is looked at
\* while fewer than top_n are accepted, it is not nearer than the one
\* visited before it, it is accepted exactly when separated from all the
\* accepted ones, and the visits end exactly when top_n are accepted or the
\* list is exhausted
GreedyVisit ==
    pc = "select" =>
        LET sim == similarities[k]
        IN  /\ Len(filtered_similarities) < top_n
            /\ k > 1 => similarities[k - 1].dtw_distance <= sim.dtw_distance
            /\ IF SeparatedFromAll(sim, filtered_similarities, min_gap_days)
               THEN filtered_similarities' = Append(filtered_similarities, sim)
               ELSE filtered_similarities' = filtered_similarities
            /\ pc' = "returned" <=>
                  \/ Len(filtered_similarities') >= top_n
                  \/ k = Len(similarities)
            /\ pc' /= "returned" => pc' = "select" /\ k' = k + 1

\* fewer than top_n matches returned: every candidate left out is too near
\* a returned match of no greater distance
GreedyOutcome ==
    Returned /\ Len(filtered_similarities) < top_n =>
        \A c \in Range(similarities) \ Range(filtered_similarities) :
            \E m \in Range(filtered_similarities) :
                /\ ~Separated(c, m, min_gap_days)
                /\ m.dtw_distance <= c.dtw_distance

\* C19: the greedy selection rule: candidates are visited in ascending
\* distance, a visited candidate is accepted iff it is separated by more
\* than min_gap_days from every accepted range, the visits stop as soon as
\* top_n candidates are accepted or the list is exhausted; with fewer than
\* top_n matches returned, every candidate left out is too near a returned
\* match of no greater distance.
C19_GreedySelection == [][GreedyVisit /\ GreedyOutcome']_vars

\* ------------------------------------------------------------ C20

\* a step of get_recent_pattern or find_similar_patterns: the call, a pass
\* of one of its loops, its return or its exception reaching the caller
SearchStep ==
    \/ call \in {"get_recent_pattern", "find_similar_patterns"}
    \/ call' \in {"get_recent_pattern", "find_similar_patterns"}

\* C20: the stored series (its length, prices and normalised prices, by
\* position) is the same after any step of get_recent_pattern or
\* find_similar_patterns as before it, whether the call returns or raises.
C20_SeriesReadOnly == [][SearchStep => data' = data]_vars

\* get_recent_pattern has returned the last 20 of the 66 samples of a
\* loaded series
C20_Witness ==
    /\ WindowAsked
    /\ pc = "returned"
    /\ data /= NoData
    /\ Len(data.close) = 66
    /\ recent.start_idx = 46

\* ------------------------------------------------------------ C21

\* [start, end] is a window of a series of n rows
IsWindow(start, end, n) == 0 <= start /\ start <= end /\ end < n

\* C21: the reference window and every candidate window built during a
\* search satisfy 0 <= start <= end < len(series), and every candidate
\* window has the length of the reference window.
C21_WindowInvariant ==
    pc \in {"scan", "select", "returned"}
        /\ call \in {"get_recent_pattern", "find_similar_patterns"} =>
        /\ IsWindow(recent.start_idx, recent.end_idx, Len(data.close))
        /\ \A q \in 1..Len(similarities) :
              /\ IsWindow(similarities[q].start_idx, similarities[q].end_idx,
                          Len(data.close))
              /\ similarities[q].end_idx - similarities[q].start_idx
                    = recent.end_idx - recent.start_idx

\* a scan of 21-sample windows over 66 rows has built all its candidates
C21_Witness ==
    /\ Finding
    /\ pc = "select"
    /\ recent.end_idx - recent.start_idx = 20
    /\ Len(data.close) = 66
    /\ Len(similarities) > 20

\* ------------------------------------------------------------ C22

\* the list turned round
Reversed(sims) == [q \in 1..Len(sims) |-> sims[Len(sims) + 1 - q]]

\* the list begun at position r + 1, its first r elements arriving last
Rotated(sims, r) ==
    [q \in 1..Len(sims) |-> sims[((q + r - 1) % Len(sims)) + 1]]

\* the elements at positions p and p + 1 arriving the other way round
Swapped(sims, p) ==
    [q \in 1..Len(sims) |->
        IF q = p THEN sims[p + 1] ELSE IF q = p + 1 THEN sims[p] ELSE sims[q]]

\* orders in which the candidates of a scan may be collected
ArrivalOrders(sims) ==
    {Reversed(sims)}
        \cup {Rotated(sims, r) : r \in 0..(Len(sims) - 1)}
        \cup {Swapped(sims, p) : p \in 1..(Len(sims) - 1)}

\* candidates of equal distance arrive in ascending index order
TiesKept(sims) ==
    \A a, b \in 1..Len(sims) :
        a < b /\ sims[a].dtw_distance = sims[b].dtw_distance
            => sims[a].end_idx < sims[b].end_idx

\* C22 as stated: the candidates collected in any arrival order, then the
\* selection pass, give the matches the sequential scan gives.
C22_AnyArrivalOrder ==
    Returned =>
        \A order \in ArrivalOrders(ScanOrder(similarities)) :
            Windows(SelectionPass(order, top_n, min_gap_days))
                = Windows(filtered_similarities)

\* C22, amended: the candidates collected in any arrival order that keeps
\* candidates of equal dtw_distance in ascending index order, then the
\* selection pass, give the matches the sequential scan gives.
C22_TieKeepingArrivalOrder ==
    Returned =>
        \A order \in ArrivalOrders(ScanOrder(similarities)) :
            TiesKept(order) =>
                Windows(SelectionPass(order, top_n, min_gap_days))
                    = Windows(filtered_similarities)

\* a search has returned a match, and its candidates have an arrival order
\* other than the scan's that keeps the ties in index order
C22_Witness ==
    /\ Returned
    /\ Len(filtered_similarities) >= 1
    /\ \E order \in ArrivalOrders(ScanOrder(similarities)) :
          /\ TiesKept(order)
          /\ order /= ScanOrder(similarities)

\* ------------------------------------------------------------ C23

\* C23: when find_similar_patterns returns and top_n >= 1, the result is
\* not empty and its first match has the least dtw_distance of all the
\* candidates scanned.
C23_FirstIsNearest ==
    Returned /\ top_n >= 1 =>
        /\ Len(filtered_similarities) >= 1
        /\ \A q \in 1..Len(similarities) :
              filtered_similarities[1].dtw_distance
                  <= similarities[q].dtw_distance

\* a search with top_n >= 1 has returned, and some candidate is farther
\* than the first match
C23_Witness ==
    /\ Returned
    /\ top_n >= 1
    /\ Len(filtered_similarities) >= 1
    /\ \E q \in 1..Len(similarities) :
          filtered_similarities[1].dtw_distance < similarities[q].dtw_distance

\* ------------------------------------------------------------ C24

\* the position of the match m in the result
PlaceOf(m) == CHOOSE q \in 1..Len(filtered_similarities) :
                  filtered_similarities[q] = m

\* C24: among candidates of equal dtw_distance the ranking keeps the scan
\* order, the smaller end index first; of two such candidates that are too
\* close to each other the later is returned only if the earlier is too
\* close to a match accepted before.
C24_TiesByPosition ==
    Finding /\ pc \in {"select", "returned"} =>
        /\ \A a, b \in 1..Len(similarities) :
              a < b /\ similarities[a].dtw_distance = similarities[b].dtw_distance
                  => similarities[a].end_idx < similarities[b].end_idx
        /\ \A m \in Range(filtered_similarities), c \in Range(similarities) :
              /\ c.dtw_distance = m.dtw_distance
              /\ c.end_idx < m.end_idx
              /\ ~Separated(c, m, min_gap_days)
              => /\ c \notin Range(filtered_similarities)
                 /\ \E q \in 1..(PlaceOf(m) - 1) :
                       ~Separated(c, filtered_similarities[q], min_gap_days)

\* of two candidates of one distance that are too close to each other the
\* earlier was returned and the later left out
C24_Witness ==
    /\ Returned
    /\ \E m \in Range(filtered_similarities), c \in Range(similarities) :
          /\ c.dtw_distance = m.dtw_distance
          /\ c.end_idx > m.end_idx
          /\ ~Separated(c, m, min_gap_days)
          /\ c \notin Range(filtered_similarities)

\* ------------------------------------------------------------ C25

\* the places of the calls of func in the log, in order
CallPlaces(log) ==
    LET places == {p \in 1..Len(log) : log[p].type = "call"}
    IN  [n \in 1..Cardinality(places) |->
            CHOOSE p \in places :
                Cardinality({q \in places : q <= p}) = n]

\* the call at place p of the log raised
Failed(log, p) == log[p].what \notin Values

\* retry_with_backoff is running or has ended, in a manager of at least
\* one try
Retrying == rpc \in {"attempt", "returned", "raised"} /\ max_retries >= 1

\* C25: retry_with_backoff with max_retries >= 1 calls func at most
\* max_retries times; it returns the value of the first call that does not
\* raise and does not call func again; after the k-th (0-based) failed
\* attempt it sleeps base_delay * 2^k before the next attempt; when all
\* max_retries calls raise, the exception of the last call is propagated.
C25_RetryWithBackoff ==
    Retrying =>
        LET places == CallPlaces(events)
            calls  == Len(places)
        IN  /\ calls <= max_retries
            /\ rpc = "returned" =>
                  /\ calls >= 1
                  /\ places[calls] = Len(events)
                  /\ ~Failed(events, places[calls])
                  /\ retry_result =
                        [kind |-> "value", what |-> events[places[calls]].what]
                  /\ \A n \in 1..(calls - 1) : Failed(events, places[n])
            /\ \A n \in 1..calls :
                  n < calls \/ rpc = "attempt" =>
                      /\ Failed(events, places[n])
                      /\ places[n] < Len(events)
                      /\ events[places[n] + 1]
                            = SleepEvent("backoff", base_delay * Pow2(n - 1))
            /\ (calls = max_retries
                    /\ \A n \in 1..calls : Failed(events, places[n])) =>
                  /\ rpc = "raised"
                  /\ places[calls] = Len(events)
                  /\ retry_result = [kind |-> "exception",
                                      what |-> events[places[calls]].what]

\* four tries of a manager with base_delay 1.5 s have all raised, the
\* first e1 and the last e2, and e2 is propagated
C25_Witness ==
    /\ rpc = "raised"
    /\ op = None
    /\ max_retries = 4
    /\ base_delay = 3
    /\ Len(CallPlaces(events)) = 4
    /\ events[CallPlaces(events)[1]].what = "e1"
    /\ retry_result = [kind |-> "exception", what |-> "e2"]

\* the success rate select_stocks prints (line 714), in percent, rounded down
SuccessRate ==
    LET requests == Max2(request_count, 1)
        ok       == request_count - failed_requests
    IN  IF ok >= 0 THEN (ok * 100) \div requests
        ELSE 0 - ((0 - ok) * 100) \div requests

\* C26: after any sequence of get_stock_list, calculate_technical_indicators
\* and get_fund_flow calls, whatever succeeds and fails, failed_requests is
\* at most request_count, so the success rate printed by select_stocks lies
\* between 0% and 100%.
C26_FailedAtMostRequests ==
    (op = None /\ rpc = "idle")
        => /\ failed_requests <= request_count
           /\ SuccessRate >= 0
           /\ SuccessRate <= 100

\* the bands of _get_grade (lines 629-642)
Grades == {"A+", "A", "B", "C", "D", "E"}

\* the scale of the report is in reach: some history scores 25 on each of
\* the four components, and each grade is the grade of some analysed stock
FullScale ==
    /\ \E t \in TechInputs : TrendScore(t) = 25
    /\ \E t \in TechInputs : VolumePriceScore(t) = 25
    /\ \E t \in TechInputs, code \in StockCodes :
          Analysis(TechData(t), code).fund_score = 25
    /\ \E code \in StockCodes : ConceptScore(code) = 25
    /\ \A grade \in Grades :
          \E t \in TechInputs, code \in StockCodes :
              Analysis(TechData(t), code).grade = grade

\* C27: the composite score of analyze_single_stock spans the 0-100 scale of
\* the report: each of the four component scores (trend, volume-price, fund,
\* concept) can reach 25, so every grade of _get_grade, 'A+' (total >= 85)
\* included, is the grade of some analysed stock.  Stated of the scale an
\* analysis is reported on: whenever analyze_single_stock has returned a
\* result, some history scores 25 on each component and some analysed stock
\* gets each grade.
C27_FullScaleAttainable == analysis.kind = "result" => FullScale

====
